---- MODULE Spec2Model ----
(***************************************************************************)
(* The decoy-filtering alignment cascade of pipelines/peppro.py:           *)
(* main() validates the bowtie2 indexes, then runs _align_with_bt2 once    *)
(* per prealignment reference (and once more per reference for the         *)
(* duplicate-retaining pool when --complexity is on), and hands the        *)
(* residual pool(s) to the genome alignment.                               *)
(*                                                                         *)
(* A FASTQ file is a sequence of read identifiers; the two mates of a pair *)
(* carry the same identifier.  Subprocesses (bowtie2, filter_paired_fq.pl) *)
(* are separate processes: the controlling thread launches them through    *)
(* pm.run and, when pm.wait is True, blocks until they exit.               *)
(***************************************************************************)
EXTENDS Integers, Sequences, FiniteSets, TLC

\* ---- bounds of the model ----
MaxDecoys == 2      \* longest --prealignments list
MaxReads == 1       \* reads (pairs, when paired) in the trimmed pool
MaxEnv == 1         \* index directories that may vanish during the run
MaxDefects == 2     \* files of an index folder that are missing, empty or extra
MaxCores == 2       \* largest pm.cores looked at

\* ---- names ----
Decoys == {"a", "b"}
Genome == "g"
NoPath == <<"", "", "">>

Range(s) == {s[k] : k \in DOMAIN s}
SeqsUpTo(S, n) == UNION {[1..k -> S] : k \in 0..n}
Perms(S) == {p \in [1..Cardinality(S) -> S] : Range(p) = S}
Prefixes(s) == {SubSeq(s, 1, k) : k \in 0..Len(s)}
Ids(n) == [k \in 1..n |-> k]

VARIABLES
  args,        \* parsed options: paired_end, keep, no_fifo, complexity, prealignments
  idx,         \* filesystem: state of each assembly's bowtie2 index folder
  validated,   \* assemblies that passed _check_bowtie2_index
  pc,          \* position of the controlling thread
  ck,          \* position in <<genome>> \o prealignments during validation
  i,           \* position in args.prealignments of the running stage
  casc,        \* which pool the running stage works on: "main" or "dups"
  pool,        \* (unmap_fq1, unmap_fq2) and (unmap_fq1_dups, unmap_fq2_dups)
  fq,          \* filesystem: FASTQ files, path -> sequence of read ids
  summary,     \* filesystem: bowtie2 summary logs, path -> reads aligned exactly once
  others,      \* filesystem: other entries (named pipes, BAM files, temp dirs)
  cleanup,     \* paths registered with pm.clean_add
  stats,       \* results reported with pm.report_result
  aligner,     \* the bowtie2 subprocess of the running stage
  filters,     \* every filter_paired_fq.pl subprocess launched so far
  cur,         \* locals of the running _align_with_bt2 call
  log,         \* history: one record per returned _align_with_bt2 call
  to_compress, \* main(): paths queued for compression
  handed,      \* history: what the genome alignment was given
  envSteps,    \* number of index folders removed so far
  prev,        \* history: what an earlier run on the same output folder left
  pipes        \* filesystem: the named pipes, path -> the call that made each

vars == <<args, idx, validated, pc, ck, i, casc, pool, fq, summary, others,
          cleanup, stats, aligner, filters, cur, log, to_compress, handed,
          envSteps, prev, pipes>>

\* ---- paths (peppro.py:170-219, 1552-1603) ----
\* variant: the dups flag does not enter the file names
PathWithoutDups(kind, ref, c) == <<kind, ref, "main">>

Path(kind, ref, c) == <<kind, ref, c>>

\* unmap_fq1/unmap_fq2 before the first stage
InitPool(paired, c) ==
  IF paired
    THEN <<Path("deinterleave_R1", "", c), Path("deinterleave_R2", "", c)>>
    ELSE <<Path(IF c = "dups" THEN "trimmed" ELSE "processed", "", c), NoPath>>

\* useFIFO as main() passes it
UseFIFO(a) == ~a.no_fifo

\* variant: --keep forgotten in the strategy test
FifoStrategyIgnoringKeep(useFIFO, paired, keep) == useFIFO /\ paired

\* the named-pipe strategy test of _align_with_bt2
FifoStrategy(useFIFO, paired, keep) == useFIFO /\ paired /\ ~keep

\* the branch that dispatches the filter without waiting
AsyncFilter(useFIFO, paired, keep) == paired /\ ~(keep \/ ~useFIFO)

OutTmp(ref, c, useFIFO, paired, keep) ==
  IF FifoStrategy(useFIFO, paired, keep)
    THEN Path("bt2_fifo", ref, c)
    ELSE Path("unmap.fq", ref, c)

NoCur == [ref |-> "", in1 |-> NoPath, in2 |-> NoPath, tmp |-> NoPath,
          r1 |-> NoPath, r2 |-> NoPath, bam |-> NoPath, sumf |-> NoPath,
          fifo |-> FALSE, fidx |-> 0, nin |-> 0, pairedIn |-> FALSE,
          launched |-> 0, un |-> {}, wpipe |-> <<>>]

\* the name gzip gives the compressed file
Gz(p) == <<p[1] \o ".gz", p[2], p[3]>>
\* the files left when the paths ps are removed
Remove(f, ps) == [q \in DOMAIN f \ ps |-> f[q]]

Size(f, p) == IF p \in DOMAIN f THEN Len(f[p]) ELSE 0
PoolSize(f, pl) == Size(f, pl[1]) + Size(f, pl[2])
Content(f, p) == IF p \in DOMAIN f THEN f[p] ELSE <<>>

\* the reads of the trimmed pool of cascade c: the duplicate-retaining pool
\* comes from trimmed_fastq, the primary one from processed_fastq, and their
\* records are told apart by their identifiers
PoolReads(c) == [k \in 1..MaxReads |-> IF c = "dups" THEN k + MaxReads ELSE k]

\* The stage asks pm.get_stat for "Trimmed_reads", which no step of this
\* pipeline reports: it is there only if the sample's stats file holds it
\* already, and then it is the number of reads of the trimmed pool.
TrimmedReads(paired) == IF paired THEN 2 * MaxReads ELSE MaxReads
TrimmedKey == <<"Trimmed_reads", "">>

Init ==
  /\ args \in [paired_end : BOOLEAN, keep : BOOLEAN, no_fifo : BOOLEAN,
               complexity : BOOLEAN,
               prealignments : SeqsUpTo(Decoys, MaxDecoys)]
  /\ idx \in [Decoys \cup {Genome} -> {"ok", "incomplete", "missing"}]
  /\ \A r \in Decoys \ Range(args.prealignments) : idx[r] = "ok"
  /\ validated = {}
  /\ pc = "check"
  /\ ck = 1
  /\ i = 1
  /\ casc = "main"
  /\ pool = [c \in {"main", "dups"} |->
               IF c = "dups" /\ ~args.complexity THEN <<NoPath, NoPath>>
               ELSE InitPool(args.paired_end, c)]
  /\ fq = [p \in {pool[c][k] : c \in {"main", "dups"}, k \in 1..2} \ {NoPath}
             |-> PoolReads(p[3])]
  /\ summary = <<>>
  /\ others = {}
  /\ cleanup = {}
  /\ stats \in {<<>>, TrimmedKey :> TrimmedReads(args.paired_end)}
  /\ aligner = "idle"
  /\ filters = <<>>
  /\ cur = NoCur
  /\ log = <<>>
  /\ to_compress = <<>>
  /\ handed = <<>>
  /\ envSteps = 0
  /\ prev = <<>>
  /\ pipes = <<>>

\* ---- index validation (peppro.py:319-388, 696-699) ----
ToCheck(a) == <<Genome>> \o a.prealignments

\* variant: only the folder's existence is validated
IndexPassesOnFolder(st) == st # "missing"

\* _check_bowtie2_index passes only on an existing folder with a complete index
IndexPasses(st) == st = "ok"

\* variant: the stage does not test for the folder
IndexDirAssumed(st) == TRUE

\* os.path.exists(os.path.dirname(assembly_bt2))
IndexDirExists(st) == st # "missing"

\* variant: without prealignments the run goes past the genome alignment
FirstPcSkipsGenome(a) == IF Len(a.prealignments) = 0 THEN "done" ELSE "enter"

FirstPc(a) == IF Len(a.prealignments) = 0 THEN "genome" ELSE "enter"

CheckIndex ==
  /\ pc = "check"
  /\ ck <= Len(ToCheck(args))
  /\ LET ref == ToCheck(args)[ck] IN
       IF IndexPasses(idx[ref])
         THEN /\ validated' = validated \cup {ref}
              /\ ck' = ck + 1
              /\ pc' = IF ck = Len(ToCheck(args)) THEN FirstPc(args) ELSE "check"
         ELSE /\ pc' = "failed"       \* pm.fail_pipeline
              /\ UNCHANGED <<validated, ck>>
  /\ UNCHANGED <<pipes, prev, args, idx, i, casc, pool, fq, summary, others, cleanup,
                 stats, aligner, filters, cur, log, to_compress, handed,
                 envSteps>>

\* The filesystem is shared with the outside world: an index folder that
\* passed validation can be gone when the stage tests for it.  After the
\* validation the folder's existence is read only at the entry of a stage on
\* that reference, so a removal at any earlier moment is the same as one here.
IndexRemoved ==
  /\ pc = "enter"
  /\ envSteps < MaxEnv
  /\ idx[args.prealignments[i]] = "ok"
  /\ idx' = [idx EXCEPT ![args.prealignments[i]] = "missing"]
  /\ envSteps' = envSteps + 1
  /\ UNCHANGED <<pipes, prev, args, validated, pc, ck, i, casc, pool, fq, summary, others,
                 cleanup, stats, aligner, filters, cur, log, to_compress,
                 handed>>

\* ---- pm.run target test ----
Exists(p) == p \in DOMAIN fq \/ p \in DOMAIN summary \/ p \in others
TargetsExist(ts) == \A t \in ts : Exists(t)

\* the target(s) of the stage's pm.run calls (peppro.py:260-277)
StageTargets(a, ref, c) ==
  IF a.paired_end
    THEN (IF AsyncFilter(UseFIFO(a), a.paired_end, a.keep)
            THEN {Path("bt_aln_summary.log", ref, c), Path("unmap_R2.fq.gz", ref, c)}
            ELSE {Path("bam", ref, c)})
    ELSE (IF a.keep THEN {Path("bam", ref, c)} ELSE {Path("unmap.fq.gz", ref, c)})

\* ---- _align_with_bt2, entry (peppro.py:167-237, 312-316) ----
LogEntry(c, skipped, ret) ==
  [ref |-> c.ref, casc |-> casc, skipped |-> skipped, mkfifo |-> c.fifo,
   tmp |-> c.tmp, inp |-> <<c.in1, c.in2>>, out |-> ret,
   launched |-> c.launched, fidx |-> c.fidx, un |-> c.un,
   async |-> c.fidx # 0 /\ filters[c.fidx].nowait]

\* the reference of the k-th iteration of `for reference in args.prealignments`
CurrentRef(a, k) == a.prealignments[k]

\* variant: the duplicate-retaining call is given the primary pool
StageInputPrimaryOnly(pl, c) == pl["main"]

\* the (unmap_fq1, unmap_fq2) arguments main() passes for cascade c
StageInput(pl, c) == pl[c]

\* the running call: which run, and which call of _align_with_bt2 in it
CallId == <<Len(prev) + 1, Len(log) + 1>>

\* variant: without the os.remove, pm.run finds its target and skips mkfifo
MakeFifoUnlessThere(ps, p, id) == IF p \in DOMAIN ps THEN ps ELSE (p :> id) @@ ps

\* if os.path.exists(out_fastq_tmp): os.remove(out_fastq_tmp); then mkfifo
MakeFifo(ps, p, id) == (p :> id) @@ Remove(ps, {p})

StageEnter ==
  /\ pc = "enter"
  /\ LET ref == CurrentRef(args, i)
         useFIFO == UseFIFO(args)
         paired == args.paired_end
         isFifo == FifoStrategy(useFIFO, paired, args.keep)
         tmp == OutTmp(ref, casc, useFIFO, paired, args.keep)
         inp == StageInput(pool, casc)
         c == [ref |-> ref, in1 |-> inp[1], in2 |-> inp[2],
               tmp |-> tmp,
               r1 |-> Path("unmap_R1.fq", ref, casc),
               r2 |-> Path("unmap_R2.fq", ref, casc),
               bam |-> Path("bam", ref, casc),
               sumf |-> Path("bt_aln_summary.log", ref, casc),
               fifo |-> isFifo, fidx |-> 0,
               nin |-> PoolSize(fq, inp),
               pairedIn |-> Content(fq, inp[1]) = Content(fq, inp[2]),
               launched |-> 0, un |-> {}, wpipe |-> <<>>]
     IN
       IF IndexDirExists(idx[ref])
         THEN /\ cur' = c
              \* a stale pipe is removed and mkfifo run; tempdir is registered
              /\ others' = (IF isFifo THEN others \cup {tmp} ELSE others)
                             \cup {Path("tmpdir", ToString(Len(log) + 1), casc)}
              /\ cleanup' = cleanup \cup {Path("tmpdir", ToString(Len(log) + 1), casc)}
              /\ pipes' = IF isFifo THEN MakeFifo(pipes, tmp, CallId) ELSE pipes
              /\ pc' = "dispatch"
              /\ UNCHANGED <<log>>
         ELSE /\ cur' = NoCur
              /\ log' = Append(log, LogEntry([c EXCEPT !.fifo = FALSE,
                                                       !.tmp = NoPath],
                                             TRUE, inp))
              /\ pc' = "advance"
              /\ UNCHANGED <<others, cleanup, pipes>>
  /\ UNCHANGED <<prev, args, idx, validated, ck, i, casc, pool, fq, summary, stats,
                 aligner, filters, to_compress, handed, envSteps>>

\* ---- _align_with_bt2, dispatch (peppro.py:260-277) ----
NewFilter(c, nowait) ==
  [tmp |-> c.tmp, in1 |-> c.in1, in2 |-> c.in2, r1 |-> c.r1, r2 |-> c.r2,
   st |-> "open", fifo |-> c.fifo, got |-> {}, eof |-> FALSE, hash |-> {},
   pos |-> 1, half |-> FALSE, nowait |-> nowait,
   pipe |-> IF c.fifo THEN pipes[c.tmp] ELSE <<>>]    \* the pipe it opens

\* variant: the two commands of the list are started together
RunPairedFileTogether ==
  /\ pc = "dispatch"
  /\ args.paired_end
  /\ ~AsyncFilter(UseFIFO(args), args.paired_end, args.keep)
  /\ aligner' = "running"
  /\ filters' = Append(filters, NewFilter(cur, FALSE))
  /\ cur' = [cur EXCEPT !.launched = @ + 1, !.fidx = Len(filters) + 1]
  /\ pc' = "wait_aligner"
  /\ UNCHANGED <<pipes, prev, args, idx, validated, ck, i, casc, pool, fq, summary, others,
                 cleanup, stats, log, to_compress, handed, envSteps>>

\* paired, --keep or no named pipes: pm.run([cmd, filter_pair], mapped_bam)
RunPairedFile ==
  /\ pc = "dispatch"
  /\ args.paired_end
  /\ ~AsyncFilter(UseFIFO(args), args.paired_end, args.keep)
  /\ IF TargetsExist(StageTargets(args, cur.ref, casc))
       THEN /\ pc' = "post"
            /\ UNCHANGED <<aligner, cur>>
       ELSE /\ aligner' = "running"
            /\ cur' = [cur EXCEPT !.launched = @ + 1]
            /\ pc' = "wait_aligner"
  /\ UNCHANGED <<pipes, prev, args, idx, validated, ck, i, casc, pool, fq, summary, others,
                 cleanup, stats, filters, log, to_compress, handed, envSteps>>

\* variant: the aligner is dispatched before the filter
RunAlignerBeforeFilter ==
  /\ pc = "dispatch"
  /\ AsyncFilter(UseFIFO(args), args.paired_end, args.keep)
  /\ aligner' = "running"
  /\ cur' = [cur EXCEPT !.launched = @ + 1]
  /\ pc' = "wait_aligner"
  /\ UNCHANGED <<pipes, prev, args, idx, validated, ck, i, casc, pool, fq, summary, others,
                 cleanup, stats, filters, log, to_compress, handed, envSteps>>

\* paired with a named pipe: pm.wait = False; pm.run(filter_pair, ...)
RunFilterNoWait ==
  /\ pc = "dispatch"
  /\ AsyncFilter(UseFIFO(args), args.paired_end, args.keep)
  /\ IF TargetsExist(StageTargets(args, cur.ref, casc))
       THEN UNCHANGED <<filters, cur>>
       ELSE /\ filters' = Append(filters, NewFilter(cur, TRUE))
            /\ cur' = [cur EXCEPT !.fidx = Len(filters) + 1]
  /\ pc' = "fifo_cmd"
  /\ UNCHANGED <<pipes, prev, args, idx, validated, ck, i, casc, pool, fq, summary, others,
                 cleanup, stats, aligner, log, to_compress, handed, envSteps>>

\* pm.wait = True; pm.run(cmd, [summary_file, out_fastq_r2_gz])
RunAlignerFifo ==
  /\ pc = "fifo_cmd"
  /\ IF TargetsExist(StageTargets(args, cur.ref, casc))
       THEN /\ pc' = "post"
            /\ UNCHANGED <<aligner, cur>>
       ELSE /\ aligner' = "running"
            /\ cur' = [cur EXCEPT !.launched = @ + 1, !.wpipe = pipes[cur.tmp]]
            /\ pc' = "wait_aligner"
  /\ UNCHANGED <<pipes, prev, args, idx, validated, ck, i, casc, pool, fq, summary, others,
                 cleanup, stats, filters, log, to_compress, handed, envSteps>>

\* single-end: pm.run(cmd, mapped_bam) or pm.run(cmd, out_fastq_tmp_gz)
RunSingle ==
  /\ pc = "dispatch"
  /\ ~args.paired_end
  /\ IF TargetsExist(StageTargets(args, cur.ref, casc))
       THEN /\ pc' = "post"
            /\ UNCHANGED <<aligner, cur>>
       ELSE /\ aligner' = "running"
            /\ cur' = [cur EXCEPT !.launched = @ + 1]
            /\ pc' = "wait_aligner"
  /\ UNCHANGED <<pipes, prev, args, idx, validated, ck, i, casc, pool, fq, summary, others,
                 cleanup, stats, filters, log, to_compress, handed, envSteps>>

\* ---- the bowtie2 subprocess (command built at peppro.py:239-258) ----
\* bowtie2 -k 1 -U unmap_fq1 --un out_fastq_tmp: every read of unmap_fq1 is
\* either aligned (at most one alignment is searched for, so it counts as
\* "aligned exactly 1 time") or written to out_fastq_tmp; with several
\* threads the order of the unaligned output is not the input order.
AlignerOutcomes(src) ==
  UNION {{[aligned |-> al, un |-> u] : u \in Perms(Range(src) \ al)} :
           al \in SUBSET Range(src)}

\* ---- the worked scenario: one decoy, paired input of 1000 read pairs of
\* which 1% align to the decoy, Trimmed_reads = 2000 ----
ScenarioPairs == 1000
ScenarioAlignedPairs == 10
ScenarioTrimmed == 2000

\* which pairs align: the first ones, the last ones, or one in every hundred
ScenarioAligned ==
  {1..ScenarioAlignedPairs,
   (ScenarioPairs - ScenarioAlignedPairs + 1)..ScenarioPairs,
   {k * (ScenarioPairs \div ScenarioAlignedPairs) : k \in 1..ScenarioAlignedPairs}}

Without(s, al) == SelectSeq(s, LAMBDA x : x \notin al)

ScenarioOutcomes(src) ==
  {[aligned |-> al \cap Range(src), un |-> Without(src, al)] : al \in ScenarioAligned}

\* what bowtie2 sees of its input: reading the very file it rewrites
\* (--un equal to -U) yields some prefix of it
AlignerInputs(c) ==
  IF c.in1 = c.tmp THEN Prefixes(fq[c.in1]) ELSE {fq[c.in1]}

\* variant: the aligner's exit status is ignored (nofail)
AfterAlignerNoFail(ok, paired, fifo) ==
  IF paired /\ ~fifo THEN "wait_filter" ELSE "post"

\* where the controlling thread goes when pm.run(cmd...) is over: a non-zero
\* exit raises; in the temp-file strategy the filter is the list's next command
AfterAligner(ok, paired, fifo) ==
  IF ~ok THEN "failed"
  ELSE IF paired /\ ~fifo THEN "wait_filter"
  ELSE "post"

\* variant: the sorted BAM is written whatever --keep is
MappedOutputAlways(keep, bam) == {bam}

\* with --keep the command ends in samtools sort -o mapped_bam, otherwise in
\* > /dev/null
MappedOutput(keep, bam) == IF keep THEN {bam} ELSE {}

\* what the summary log holds for grep: the count of the line "aligned
\* exactly 1 time", or NoLine when the log has no such line (the log is the
\* stderr of tools.bowtie2, an external binary named in the configuration)
NoLine == -1
SummaryCount(quiet, o) == IF quiet THEN NoLine ELSE Cardinality(o.aligned)

\* the process exits; the controlling thread, blocked in pm.run, resumes;
\* the reads split in any way, or, in the scenario, in one of the scenario's
AlignerRuns(scenario, quiet) ==
  /\ pc = "wait_aligner"
  /\ aligner = "running"
  /\ \E ok \in BOOLEAN :
     /\ IF ok
         THEN /\ cur.in1 \in DOMAIN fq
              \* a writer on a named pipe needs a reader on the other end
              /\ cur.fifo => (cur.fidx # 0 /\ filters[cur.fidx].st = "open")
              /\ \E src \in AlignerInputs(cur) :
                 \E o \in (IF scenario THEN ScenarioOutcomes(src)
                            ELSE AlignerOutcomes(src)) :
                   /\ fq' = IF cur.fifo THEN fq
                            ELSE (cur.tmp :> o.un) @@ fq
                   /\ filters' =
                        IF cur.fifo
                          THEN [filters EXCEPT ![cur.fidx].got = Range(o.un),
                                               ![cur.fidx].eof = TRUE]
                        ELSE IF args.paired_end
                          THEN Append(filters, NewFilter(cur, FALSE))
                        ELSE filters
                   /\ summary' = (cur.sumf :> SummaryCount(quiet, o)) @@ summary
                   /\ cur' = IF args.paired_end /\ ~cur.fifo
                               THEN [cur EXCEPT !.fidx = Len(filters) + 1,
                                                !.un = Range(o.un)]
                               ELSE [cur EXCEPT !.un = Range(o.un)]
              /\ others' = others \cup MappedOutput(args.keep, cur.bam)
              /\ aligner' = "exit0"
         ELSE /\ aligner' = "nonzero"
              /\ UNCHANGED <<fq, filters, summary, others, cur>>
     /\ pc' = AfterAligner(ok, args.paired_end, cur.fifo)
  /\ UNCHANGED <<pipes, prev, args, idx, validated, ck, i, casc, pool, cleanup, stats, log,
                 to_compress, handed, envSteps>>

AlignerExit == AlignerRuns(FALSE, FALSE)

\* ---- the filter_paired_fq.pl subprocess ----
\* Subprocesses are followed up to the moment the genome alignment takes the
\* pools; a failed run terminates its children, and so does the end of a run.
Running == pc \notin {"failed", "done", "compressed", "stopped"}

\* next position at or after p where both mate files have a record and the
\* R1 record's identifier is among the unaligned ones; 0 when there is none
NextMatch(f, p) ==
  LET n1 == Size(fq, f.in1)
      n2 == Size(fq, f.in2)
      n == IF n1 < n2 THEN n1 ELSE n2
      hits == {q \in p..n : fq[f.in1][q] \in f.hash}
  IN IF hits = {} THEN 0 ELSE CHOOSE q \in hits : \A r \in hits : q <= r

\* the unaligned stream is read to its end, then the outputs are opened
FilterLoad ==
  \E k \in DOMAIN filters :
    /\ Running
    /\ filters[k].st = "open"
    /\ IF filters[k].fifo THEN filters[k].eof ELSE filters[k].tmp \in DOMAIN fq
    /\ LET f == filters[k]
           ids == IF f.fifo THEN f.got ELSE Range(fq[f.tmp])
       IN /\ filters' = [filters EXCEPT ![k].st = "emit", ![k].hash = ids,
                                         ![k].got = {}]
          /\ fq' = (f.r1 :> <<>>) @@ (f.r2 :> <<>>) @@ fq
    /\ UNCHANGED <<pipes, prev, args, idx, validated, pc, ck, i, casc, pool, summary, others,
                   cleanup, stats, aligner, cur, log, to_compress, handed,
                   envSteps>>

\* one record written to the R1 output
FilterEmit1 ==
  \E k \in DOMAIN filters :
    /\ Running
    /\ filters[k].st = "emit"
    /\ ~filters[k].half
    /\ NextMatch(filters[k], filters[k].pos) # 0
    /\ LET f == filters[k]
           q == NextMatch(f, f.pos)
       IN /\ fq' = [fq EXCEPT ![f.r1] = Append(@, fq[f.in1][q])]
          /\ filters' = [filters EXCEPT ![k].pos = q, ![k].half = TRUE]
    /\ UNCHANGED <<pipes, prev, args, idx, validated, pc, ck, i, casc, pool, summary, others,
                   cleanup, stats, aligner, cur, log, to_compress, handed,
                   envSteps>>

\* the mate's record written to the R2 output
FilterEmit2 ==
  \E k \in DOMAIN filters :
    /\ Running
    /\ filters[k].st = "emit"
    /\ filters[k].half
    /\ LET f == filters[k]
       IN /\ fq' = [fq EXCEPT ![f.r2] =
                       IF f.pos <= Size(fq, f.in2)
                         THEN Append(@, fq[f.in2][f.pos]) ELSE @]
          /\ filters' = [filters EXCEPT ![k].pos = f.pos + 1, ![k].half = FALSE]
    /\ UNCHANGED <<pipes, prev, args, idx, validated, pc, ck, i, casc, pool, summary, others,
                   cleanup, stats, aligner, cur, log, to_compress, handed,
                   envSteps>>

\* the process exits: with 0 at the end of its input, or with an error; a
\* controlling thread blocked on it in pm.run resumes
FilterExit ==
  \E k \in DOMAIN filters :
    /\ Running
    /\ filters[k].st \in {"open", "emit"}
    /\ ~filters[k].half
    /\ \E ok \in BOOLEAN :
         /\ ok => /\ filters[k].st = "emit"
                  /\ NextMatch(filters[k], filters[k].pos) = 0
         /\ filters' = [filters EXCEPT ![k].st = IF ok THEN "done" ELSE "failed",
                                        ![k].got = {}, ![k].hash = {},
                                        ![k].pos = 1]
         /\ pc' = IF pc = "wait_filter" /\ cur.fidx = k
                    THEN (IF ok THEN "post" ELSE "failed")
                    ELSE pc
    /\ UNCHANGED <<pipes, prev, args, idx, validated, ck, i, casc, pool, fq, summary, others,
                   cleanup, stats, aligner, cur, log, to_compress, handed,
                   envSteps>>

\* ---- _align_with_bt2, statistics and return (peppro.py:279-311) ----
\* variant: the output of grep is taken to hold a count
AlignedReadsUnchecked(sumf) == summary[sumf] * 2

\* variant: the aligner's count is reported as it is
AlignedReadsNotDoubled(sumf) ==
  IF sumf \in DOMAIN summary /\ summary[sumf] # NoLine THEN summary[sumf] ELSE 0

\* grep 'aligned exactly 1 time' summary_file | awk '{print $1}', doubled;
\* 0 when the output is empty
AlignedReads(sumf) ==
  IF sumf \in DOMAIN summary /\ summary[sumf] # NoLine THEN summary[sumf] * 2 ELSE 0

\* round(float(ar) * 100 / float(tr), 2), in hundredths; a tie goes to even
AlignmentRate(ar, tr) ==
  LET n == ar * 10000
      q == n \div tr
      r == n % tr
  IN IF 2 * r < tr THEN q
     ELSE IF 2 * r > tr THEN q + 1
     ELSE IF q % 2 = 0 THEN q ELSE q + 1

\* variant: a rate of 0 is reported when Trimmed_reads is missing
ReportedWithDefault(st, ref, ar) ==
  (<<"Aligned_reads", ref>> :> ar) @@
  (<<"Alignment_rate", ref>> :>
     (IF TrimmedKey \in DOMAIN st THEN AlignmentRate(ar, st[TrimmedKey]) ELSE 0)) @@ st

\* pm.report_result of the aligned reads; of the rate when get_stat has
\* Trimmed_reads (the except branch reports nothing)
Reported(st, ref, ar) ==
  IF TrimmedKey \in DOMAIN st
    THEN (<<"Aligned_reads", ref>> :> ar) @@
         (<<"Alignment_rate", ref>> :> AlignmentRate(ar, st[TrimmedKey])) @@ st
    ELSE (<<"Aligned_reads", ref>> :> ar) @@ st

\* variant: the single-end stage returns out_fastq_r1 (the commented-out line 307)
ReturnedFilterOutput(c, paired) == IF paired THEN <<c.r1, c.r2>> ELSE <<c.r1, NoPath>>

\* the (unmap_fq1, unmap_fq2) the call returns
Returned(c, paired) == IF paired THEN <<c.r1, c.r2>> ELSE <<c.tmp, NoPath>>

StagePost ==
  /\ pc = "post"
  /\ cleanup' = cleanup \cup {cur.tmp}
  /\ stats' = IF casc = "main"
                THEN Reported(stats, cur.ref, AlignedReads(cur.sumf))
                ELSE stats
  /\ pool' = [pool EXCEPT ![casc] = Returned(cur, args.paired_end)]
  /\ log' = Append(log, LogEntry(cur, FALSE, Returned(cur, args.paired_end)))
  /\ cur' = NoCur
  /\ pc' = "advance"
  /\ UNCHANGED <<pipes, prev, args, idx, validated, ck, i, casc, fq, summary, others,
                 aligner, filters, to_compress, handed, envSteps>>

\* ---- main(), the prealignment loop (peppro.py:1615-1681) ----
Queued(a, pl) ==
  IF a.complexity
    THEN (IF a.paired_end
            THEN <<pl["dups"][1], pl["dups"][2], pl["main"][1], pl["main"][2]>>
            ELSE <<pl["dups"][1], pl["main"][1]>>)
    ELSE (IF a.paired_end THEN <<pl["main"][1], pl["main"][2]>>
          ELSE <<pl["main"][1]>>)

Advance ==
  /\ pc = "advance"
  /\ IF casc = "main" /\ args.complexity
       THEN /\ casc' = "dups"
            /\ pc' = "enter"
            /\ UNCHANGED <<i, to_compress>>
       ELSE /\ casc' = "main"
            /\ to_compress' = to_compress \o Queued(args, pool)
            /\ i' = i + 1
            /\ pc' = IF i + 1 > Len(args.prealignments) THEN "genome"
                     ELSE "enter"
  /\ UNCHANGED <<pipes, prev, args, idx, validated, ck, pool, fq, summary, others, cleanup,
                 stats, aligner, filters, cur, log, handed, envSteps>>

\* ---- main(), genome alignment reads the residual pools (1723-1761, 1811-1818)
GenomeBam == Path("sort.bam", Genome, "main")

\* pm.run([cmd, cmd2], mapping_genome_bam): skipped when the BAM exists
MapGenome ==
  /\ pc = "genome"
  /\ handed' = <<[paths |-> pool,
                  reads |-> [c \in {"main", "dups"} |->
                               <<Content(fq, pool[c][1]), Content(fq, pool[c][2])>>],
                  ran |-> ~Exists(GenomeBam)]>>
  /\ others' = others \cup {GenomeBam}
  /\ pc' = "done"
  /\ UNCHANGED <<pipes, prev, args, idx, validated, ck, i, casc, pool, fq, summary,
                 cleanup, stats, aligner, filters, cur, log, to_compress,
                 envSteps>>

\* ---- main(), compression of the unmapped read files (peppro.py:1820-1826)
\* `for unmapped_fq in to_compress`: pm.run(gzip unmapped_fq, unmapped_fq.gz)
\* from position k on; a gzip on a missing file exits non-zero
RECURSIVE Compressed(_, _, _)
Compressed(f, l, k) ==
  IF k > Len(l) THEN [fq |-> f, ok |-> TRUE]
  ELSE IF l[k] = NoPath \/ Gz(l[k]) \in DOMAIN f THEN Compressed(f, l, k + 1)
  ELSE IF l[k] \in DOMAIN f
    THEN Compressed((Gz(l[k]) :> f[l[k]]) @@ Remove(f, {l[k]}), l, k + 1)
  ELSE [fq |-> f, ok |-> FALSE]

CompressUnmapped ==
  /\ pc = "done"
  /\ fq' = Compressed(fq, to_compress, 1).fq
  /\ pc' = IF Compressed(fq, to_compress, 1).ok THEN "compressed" ELSE "failed"
  /\ UNCHANGED <<pipes, prev, args, idx, validated, ck, i, casc, pool, summary, others,
                 cleanup, stats, aligner, filters, cur, log, to_compress,
                 handed, envSteps>>

\* ---- pm.stop_pipeline(): the registered paths are removed, subprocesses
\* still running are terminated
StopPipeline ==
  /\ pc = "compressed"
  /\ fq' = Remove(fq, cleanup)
  /\ others' = others \ cleanup
  /\ filters' = [k \in DOMAIN filters |->
                   IF filters[k].st \in {"open", "emit"}
                     THEN [filters[k] EXCEPT !.st = "killed", !.got = {},
                                             !.hash = {}, !.pos = 1,
                                             !.half = FALSE, !.eof = FALSE]
                     ELSE filters[k]]
  /\ pipes' = Remove(pipes, cleanup)
  /\ pc' = "stopped"
  /\ UNCHANGED <<prev, args, idx, validated, ck, i, casc, pool, summary,
                 cleanup, stats, aligner, cur, log, to_compress, handed,
                 envSteps>>

Next ==
  \/ CheckIndex
  \/ IndexRemoved
  \/ StageEnter
  \/ RunPairedFile
  \/ RunFilterNoWait
  \/ RunAlignerFifo
  \/ RunSingle
  \/ AlignerExit
  \/ FilterLoad
  \/ FilterEmit1
  \/ FilterEmit2
  \/ FilterExit
  \/ StagePost
  \/ Advance
  \/ MapGenome

Spec == Init /\ [][Next]_vars

\* ---- the worked scenario as a specification ----
AlignerExitScenario == AlignerRuns(TRUE, FALSE)

ScenarioInit ==
  /\ args \in [paired_end : {TRUE}, keep : BOOLEAN, no_fifo : BOOLEAN,
               complexity : {FALSE}, prealignments : {<<"a">>}]
  /\ idx = [r \in Decoys \cup {Genome} |-> "ok"]
  /\ validated = {}
  /\ pc = "check"
  /\ ck = 1
  /\ i = 1
  /\ casc = "main"
  /\ pool = [c \in {"main", "dups"} |->
               IF c = "dups" THEN <<NoPath, NoPath>> ELSE InitPool(TRUE, c)]
  /\ fq = [p \in {InitPool(TRUE, "main")[k] : k \in 1..2} |-> Ids(ScenarioPairs)]
  /\ summary = <<>>
  /\ others = {}
  /\ cleanup = {}
  /\ stats = TrimmedKey :> ScenarioTrimmed
  /\ aligner = "idle"
  /\ filters = <<>>
  /\ cur = NoCur
  /\ log = <<>>
  /\ to_compress = <<>>
  /\ handed = <<>>
  /\ envSteps = 0
  /\ prev = <<>>
  /\ pipes = <<>>

ScenarioNext ==
  \/ CheckIndex
  \/ StageEnter
  \/ RunPairedFile
  \/ RunFilterNoWait
  \/ RunAlignerFifo
  \/ AlignerExitScenario
  \/ FilterLoad
  \/ FilterEmit1
  \/ FilterEmit2
  \/ FilterExit
  \/ StagePost
  \/ Advance
  \/ MapGenome

ScenarioSpec == ScenarioInit /\ [][ScenarioNext]_vars

\* ---- a second run of the pipeline on the same output folder ----
\* The files of the first run are as it left them; the steps before the
\* prealignments produce the trimmed pool again.
TrimmedPool(a) ==
  [p \in {InitPool(a.paired_end, c)[k] :
            c \in (IF a.complexity THEN {"main", "dups"} ELSE {"main"}),
            k \in 1..2} \ {NoPath} |-> PoolReads(p[3])]

Rerun ==
  /\ pc = "stopped"
  /\ prev = <<>>
  /\ prev' = <<[handed |-> handed, stats |-> stats, log |-> log,
                envSteps |-> envSteps]>>
  /\ fq' = TrimmedPool(args) @@ fq
  /\ validated' = {}
  /\ pc' = "check"
  /\ ck' = 1
  /\ i' = 1
  /\ casc' = "main"
  /\ pool' = [c \in {"main", "dups"} |->
                IF c = "dups" /\ ~args.complexity THEN <<NoPath, NoPath>>
                ELSE InitPool(args.paired_end, c)]
  /\ cleanup' = {}
  /\ stats' = [k \in DOMAIN stats \cap {TrimmedKey} |-> stats[k]]
  /\ aligner' = "idle"
  /\ filters' = <<>>
  /\ cur' = NoCur
  /\ log' = <<>>
  /\ to_compress' = <<>>
  /\ handed' = <<>>
  /\ UNCHANGED <<args, idx, summary, others, envSteps, pipes>>

NextRerun ==
  \/ Next
  \/ CompressUnmapped
  \/ StopPipeline
  \/ Rerun

SpecRerun == Init /\ [][NextRerun]_vars

\* ---- the same sample run once more with the other setting of --no-fifo ----
\* in a fresh output folder: same trimmed pool, same indexes, no earlier files.
\* The flag reaches the stage only for paired input without --keep (lines 200
\* and 261); the comparison starts from such a run with named pipes, with the
\* indexes in place, and repeats it with --no-fifo.
OtherStrategy ==
  /\ pc = "done"
  /\ prev = <<>>
  /\ args.paired_end /\ ~args.keep /\ ~args.no_fifo
  /\ envSteps = 0
  /\ prev' = <<[handed |-> handed, stats |-> stats,
                log |-> [k \in DOMAIN log |->
                           [launched |-> log[k].launched, un |-> log[k].un]],
                envSteps |-> envSteps]>>
  /\ args' = [args EXCEPT !.no_fifo = ~@]
  /\ fq' = TrimmedPool(args)
  /\ summary' = <<>>
  /\ others' = {}
  /\ pipes' = <<>>
  /\ validated' = {}
  /\ pc' = "check"
  /\ ck' = 1
  /\ i' = 1
  /\ casc' = "main"
  /\ pool' = [c \in {"main", "dups"} |->
                IF c = "dups" /\ ~args.complexity THEN <<NoPath, NoPath>>
                ELSE InitPool(args.paired_end, c)]
  /\ cleanup' = {}
  /\ stats' = [k \in DOMAIN stats \cap {TrimmedKey} |-> stats[k]]
  /\ aligner' = "idle"
  /\ filters' = <<>>
  /\ cur' = NoCur
  /\ log' = <<>>
  /\ to_compress' = <<>>
  /\ handed' = <<>>
  /\ UNCHANGED <<idx, envSteps>>

NextStrategies ==
  \/ Next
  \/ OtherStrategy

SpecStrategies == Init /\ [][NextStrategies]_vars

\* ---- _check_bowtie2_index on a folder given in full (peppro.py:319-388) ----
\* A file name is a sequence of pieces, cut so that the code's endswith and
\* `in` tests on names are suffix and contiguous-subsequence tests on pieces:
\* "g.1.bt2l" is <<"g", ".1", ".bt2", "l">>, "g.fa.fai" is <<"g", ".fa", ".fa", "i">>.
bt2 == <<".bt2">>
bt2l == <<".bt2", "l">>
BtStems == {<<".1">>, <<".2">>, <<".3">>, <<".4">>, <<".rev", ".1">>, <<".rev", ".2">>}
\* bt = ['.1.bt2', ..., '.rev.2.bt2'] and bt = ['.1.bt2l', ..., '.rev.2.bt2l']
BtSmall == {st \o bt2 : st \in BtStems}
BtLarge == {st \o bt2l : st \in BtStems}

EndsWith(name, suf) ==
  /\ Len(name) >= Len(suf)
  /\ SubSeq(name, Len(name) - Len(suf) + 1, Len(name)) = suf
Contains(s, name) ==
  \E k \in 1..(Len(name) - Len(s) + 1) : SubSeq(name, k, k + Len(s) - 1) = s

\* the file names a folder of assembly asm may hold: both index families, the
\* reference sequence, its .fai index, and a small-index file of another assembly
FileNames(asm) ==
  {<<asm>> \o s : s \in BtSmall \cup BtLarge} \cup
  {<<asm, ".fa">>, <<asm, ".fa", ".fa", "i">>, <<"x", ".1", ".bt2">>}

\* the files of a folder: name -> "absent", "empty" (size 0) or "full"
Files(d) == {n \in DOMAIN d.files : d.files[n] # "absent"}

\* TRUE when the function returns, FALSE when it calls pm.fail_pipeline
check_bowtie2_index(d, genome_assembly) ==
  LET files == Files(d)
      bt == IF \E f \in files : EndsWith(f, bt2) THEN BtSmall
            ELSE IF \E f \in files : EndsWith(f, bt2l) THEN BtLarge
            ELSE {}
      bt_expected == {<<genome_assembly>> \o s : s \in bt}
      bt_present == {f \in files : \E s \in bt_expected : Contains(s, f)}
      bt_missing == bt_expected \ bt_present
      genome_file == <<genome_assembly, ".fa">>
      fa_files == {f \in files : Contains(genome_file, f)}
  IN /\ d.exists                                   \* get_asset, os.path.isdir
     /\ files # {}                                 \* os.listdir(bt2_path)
     /\ bt # {}                                    \* neither family present
     /\ bt_missing = {}
     /\ \A f \in bt_present : d.files[f] # "empty"
     /\ fa_files # {}
     /\ \A f \in fa_files : d.files[f] # "empty"

\* folders: missing, or one that differs in at most MaxDefects files from an
\* empty folder or from a complete small or large index with its reference
Folder(asm, full) ==
  [exists |-> TRUE,
   files |-> [n \in FileNames(asm) |-> IF n \in full THEN "full" ELSE "absent"]]
BaseFolders(asm) ==
  {Folder(asm, {}),
   Folder(asm, {<<asm>> \o s : s \in BtSmall} \cup {<<asm, ".fa">>}),
   Folder(asm, {<<asm>> \o s : s \in BtLarge} \cup {<<asm, ".fa">>})}
Folders(asm) ==
  {[exists |-> FALSE, files |-> Folder(asm, {}).files]} \cup
  UNION {UNION {{[b EXCEPT !.files = [n \in FileNames(asm) |->
                                        IF n \in S THEN c[n] ELSE b.files[n]]] :
                   c \in [S -> {"absent", "empty", "full"}]} :
                S \in {T \in SUBSET FileNames(asm) : Cardinality(T) <= MaxDefects}} :
         b \in BaseFolders(asm)}

\* a run on a genome folder given in full, without prealignments
InitFolders ==
  /\ args \in [paired_end : BOOLEAN, keep : {FALSE}, no_fifo : {FALSE},
               complexity : {FALSE}, prealignments : {<<>>}]
  /\ idx \in [{Genome} -> Folders(Genome)]
  /\ validated = {}
  /\ pc = "check"
  /\ ck = 1
  /\ i = 1
  /\ casc = "main"
  /\ pool = [c \in {"main", "dups"} |->
               IF c = "dups" THEN <<NoPath, NoPath>>
               ELSE InitPool(args.paired_end, c)]
  /\ fq = TrimmedPool(args)
  /\ summary = <<>>
  /\ others = {}
  /\ cleanup = {}
  /\ stats = <<>>
  /\ aligner = "idle"
  /\ filters = <<>>
  /\ cur = NoCur
  /\ log = <<>>
  /\ to_compress = <<>>
  /\ handed = <<>>
  /\ envSteps = 0
  /\ prev = <<>>
  /\ pipes = <<>>

\* main(): _check_bowtie2_index(rgc, args.genome_assembly)
CheckIndexFolder ==
  /\ pc = "check"
  /\ ck <= Len(ToCheck(args))
  /\ LET ref == ToCheck(args)[ck] IN
       IF check_bowtie2_index(idx[ref], ref)
         THEN /\ validated' = validated \cup {ref}
              /\ ck' = ck + 1
              /\ pc' = IF ck = Len(ToCheck(args)) THEN FirstPc(args) ELSE "check"
         ELSE /\ pc' = "failed"       \* pm.fail_pipeline
              /\ UNCHANGED <<validated, ck>>
  /\ UNCHANGED <<pipes, prev, args, idx, i, casc, pool, fq, summary, others, cleanup,
                 stats, aligner, filters, cur, log, to_compress, handed,
                 envSteps>>

NextFolders ==
  \/ CheckIndexFolder
  \/ MapGenome

SpecFolders == InitFolders /\ [][NextFolders]_vars

\* ---- runs whose bowtie2 binary prints no alignment summary on stderr ----
AlignerExitQuiet == AlignerRuns(FALSE, TRUE)

InitQuiet == Init /\ ~args.complexity

NextQuiet ==
  \/ CheckIndex
  \/ IndexRemoved
  \/ StageEnter
  \/ RunPairedFile
  \/ RunFilterNoWait
  \/ RunAlignerFifo
  \/ RunSingle
  \/ AlignerExitQuiet
  \/ FilterLoad
  \/ FilterEmit1
  \/ FilterEmit2
  \/ FilterExit
  \/ StagePost
  \/ Advance
  \/ MapGenome

SpecQuiet == InitQuiet /\ [][NextQuiet]_vars

\* ---- steps of the controlling thread the properties speak about ----
\* an executed _align_with_bt2 call returns
StageReturns == pc = "post" /\ pc' = "advance"
\* the controlling thread moves
MainStep == pc' # pc

\* the stage's returned pool, as the files are when it returns
ReturnedSize == PoolSize(fq', pool'[casc])

\* the strategy the options ask for
FifoWanted == ~args.no_fifo /\ args.paired_end /\ ~args.keep

\* position in args.prealignments, and cascade, of the k-th returned call
IterOf(k) == IF args.complexity THEN (k + 1) \div 2 ELSE k
CascOf(k) == IF args.complexity /\ k % 2 = 0 THEN "dups" ELSE "main"

\* the pool cascade c holds after the first k returned calls
RECURSIVE PoolAfter(_, _)
PoolAfter(c, k) ==
  IF k = 0 THEN InitPool(args.paired_end, c)
  ELSE IF log[k].casc = c THEN log[k].out
  ELSE PoolAfter(c, k - 1)

\* C1: for every executed prealignment stage the recorded mapped count plus
\* the number of reads in the returned unmapped pool equals the number of
\* reads in the stage's input pool.
C1_Conservation ==
  [][(StageReturns /\ casc = "main") =>
       stats'[<<"Aligned_reads", cur.ref>>] + ReturnedSize = cur.nin]_vars

\* C2: for paired input whose R1 and R2 hold the same identifiers in the same
\* order, the R1 and R2 files a stage returns hold the same identifiers in
\* the same order.
C2_PairingIntegrity ==
  [][(StageReturns /\ args.paired_end /\ cur.pairedIn) =>
       Content(fq', pool'[casc][1]) = Content(fq', pool'[casc][2])]_vars

\* C3: stages run in the order of args.prealignments; each call's input pool
\* is the pool the previous call of the same cascade returned (the trimmed
\* pool for the first); the genome alignment is given the last returned pools.
C3_OrderAndChaining ==
  /\ \A k \in DOMAIN log :
       /\ log[k].ref = args.prealignments[IterOf(k)]
       /\ log[k].casc = CascOf(k)
       /\ log[k].inp = PoolAfter(log[k].casc, k - 1)
  /\ cur.ref # "" =>
       /\ cur.ref = args.prealignments[IterOf(Len(log) + 1)]
       /\ casc = CascOf(Len(log) + 1)
       /\ <<cur.in1, cur.in2>> = PoolAfter(casc, Len(log))
  /\ pc = "done" =>
       /\ Len(log) = Len(args.prealignments) * (IF args.complexity THEN 2 ELSE 1)
       /\ handed[1].paths["main"] = PoolAfter("main", Len(log))
       /\ args.complexity => handed[1].paths["dups"] = PoolAfter("dups", Len(log))

C3_Witness ==
  /\ pc = "done"
  /\ args.complexity
  /\ Len(log) = 4
  /\ \A k \in DOMAIN log : ~log[k].skipped
  /\ log[1].ref # log[3].ref
  /\ handed[1].paths["main"] = log[3].out

\* C4: the pool a stage returns is never larger than the pool it was given.
C4_MonotonicNarrowing ==
  [][(pc \in {"post", "enter"} /\ pc' = "advance") =>
       ReturnedSize <= (IF pc = "post" THEN cur.nin
                        ELSE PoolSize(fq, StageInput(pool, casc)))]_vars

\* C5: whenever the aligner of a named-pipe stage is running, the pairing
\* filter reading that pipe was dispatched before it without waiting, and
\* the controlling thread is blocked on the aligner.
C5_FilterLaunchedFirst ==
  (aligner = "running" /\ cur.fifo) =>
     /\ pc = "wait_aligner"
     /\ cur.fidx # 0
     /\ filters[cur.fidx].nowait
     /\ filters[cur.fidx].tmp = cur.tmp

C5_Witness ==
  /\ aligner = "running"
  /\ cur.fifo
  /\ filters[cur.fidx].st = "open"

\* C6: a named-pipe stage returns its R1/R2 paths only after the filter it
\* dispatched has completed.
C6_FilterJoined ==
  [][(StageReturns /\ cur.fifo /\ cur.fidx # 0) =>
       filters[cur.fidx].st = "done"]_vars

\* C7: a stage creates a named pipe and dispatches the filter without waiting
\* exactly when named pipes are enabled, the input is paired and --keep is
\* off; otherwise the unaligned reads go to an ordinary file and there is no
\* pipe.
C7_StrategySelection ==
  /\ \A k \in DOMAIN log :
       ~log[k].skipped =>
         /\ log[k].mkfifo = FifoWanted
         /\ log[k].async = FifoWanted
         /\ log[k].tmp[1] = (IF FifoWanted THEN "bt2_fifo" ELSE "unmap.fq")
  /\ cur.ref # "" =>
       /\ cur.fifo = FifoWanted
       /\ cur.fidx # 0 => filters[cur.fidx].nowait = FifoWanted
  /\ \A p \in others : p[1] = "bt2_fifo" => FifoWanted
  /\ \A p \in DOMAIN fq : p[1] = "unmap.fq" => ~FifoWanted

C7_Witness ==
  /\ pc = "done"
  /\ \E k \in DOMAIN log : log[k].mkfifo /\ log[k].async
  /\ \E p \in others : p[1] = "bt2_fifo"

C9_InvalidIndexAborts ==
  /\ [][(pc = "check" /\ idx[ToCheck(args)[ck]] # "ok" /\ MainStep) =>
          pc' = "failed" /\ log' = <<>> /\ cur' = NoCur]_vars
  /\ []((pc \notin {"check", "failed"} \/ log # <<>> \/ cur # NoCur) =>
          ck = Len(ToCheck(args)) + 1)
  /\ [][(pc = "check" /\ pc' \notin {"check", "failed"}) =>
          \A r \in Range(ToCheck(args)) : idx[r] = "ok"]_vars

C9_Witness ==
  /\ pc = "failed"
  /\ ck = 2
  /\ idx[Genome] = "ok"
  /\ idx[ToCheck(args)[ck]] = "incomplete"
  /\ log = <<>>

\* C10: a non-zero exit of a stage's aligner fails the run: nothing runs
\* afterwards, no statistic is reported for the stage, the genome alignment
\* is not reached, and the command is launched once.
C10_AlignerFailureFatal ==
  /\ [](aligner = "nonzero" => pc = "failed")
  /\ [][(aligner = "running" /\ aligner' = "nonzero") =>
          stats' = stats /\ log' = log /\ handed' = handed]_vars
  /\ [][pc = "failed" => UNCHANGED vars]_vars
  /\ [](cur.launched <= 1)

C10_Witness ==
  /\ aligner = "nonzero"
  /\ pc = "failed"
  /\ Len(log) >= 1
  /\ cur.launched = 1

\* C11: a non-zero exit of a stage's pairing filter fails the run, in the
\* temp-file strategy and in the named-pipe strategy alike: no stage returns
\* when its filter has failed, and no run whose filter failed goes on to the
\* genome alignment.
C11_FilterFailureFatal ==
  /\ [][(StageReturns /\ cur.fidx # 0) => filters[cur.fidx].st # "failed"]_vars
  /\ [][(pc = "genome" /\ MainStep) =>
          \A k \in DOMAIN filters : filters[k].st # "failed"]_vars

\* the temp-file part of C11, which the code meets
FilterFailureFatalTempFile ==
  /\ [][(StageReturns /\ cur.fidx # 0 /\ ~cur.fifo) =>
          filters[cur.fidx].st = "done"]_vars
  /\ []((\E k \in DOMAIN filters : filters[k].st = "failed" /\ ~filters[k].nowait)
          => pc = "failed")
  /\ [][(pc = "wait_filter" /\ MainStep /\ filters'[cur.fidx].st = "failed") =>
          pc' = "failed" /\ log' = log /\ pool' = pool]_vars

\* ---- the second run compared with the first ----
\* the reads of a pool file, compressed or not
PoolData(f, p) == IF p \in DOMAIN f THEN f[p] ELSE Content(f, Gz(p))
\* the reads of the pools the second run hands over
ResidualData ==
  [c \in {"main", "dups"} |->
     <<PoolData(fq, handed[1].paths[c][1]), PoolData(fq, handed[1].paths[c][2])>>]
Second == prev # <<>>
\* no index folder was removed in either run
SameEnv == envSteps = 0
\* wherever both runs executed a stage's aligner it left the same reads unaligned
SameAligner ==
  \A k \in DOMAIN log :
    (k \in DOMAIN prev[1].log /\ log[k].launched = 1 /\ prev[1].log[k].launched = 1)
       => log[k].un = prev[1].log[k].un

\* C12: a second run on the same inputs, with the first run's files left in
\* place, hands the genome alignment the same pool paths with the same reads
\* and records the same statistics, and re-executes no stage: no aligner and
\* no filter is launched in it.
C12_Idempotence ==
  /\ []((Second /\ SameEnv /\ pc = "done" /\ SameAligner) =>
          /\ handed[1].paths = prev[1].handed[1].paths
          /\ ResidualData = prev[1].handed[1].reads
          /\ stats = prev[1].stats)
  /\ []((Second /\ SameEnv) => (cur.launched = 0 /\ filters = <<>>))

\* the part of C12 about the results alone
IdempotentResults ==
  (Second /\ SameEnv /\ pc = "done" /\ SameAligner) =>
     /\ handed[1].paths = prev[1].handed[1].paths
     /\ ResidualData = prev[1].handed[1].reads
     /\ stats = prev[1].stats

\* the two runs executed every stage and their aligners left the same reads
\* unaligned
SameBehaviour ==
  /\ Len(log) = Len(prev[1].log)
  /\ \A k \in DOMAIN log :
       /\ log[k].launched = 1 /\ prev[1].log[k].launched = 1
       /\ log[k].un = prev[1].log[k].un

\* C13: for the same paired trimmed pool, decoy list and aligner behaviour, a
\* run with named pipes and a run with --no-fifo hand over the same residual
\* R1/R2 reads and record the same statistics.
C13_StrategyEquivalence ==
  (Second /\ SameEnv /\ pc = "done" /\ args.paired_end /\ ~args.keep
     /\ SameBehaviour) =>
     /\ handed[1].reads = prev[1].handed[1].reads
     /\ stats = prev[1].stats

\* the named pipes, temp unaligned files and temp sort directories there are
Intermediates ==
  {p \in others : p[1] \in {"bt2_fifo", "tmpdir"}} \cup
  {p \in DOMAIN fq : p[1] = "unmap.fq"}

\* C14: once a stage is over, by returning or by the failure of its aligner
\* or filter, every named pipe, temp unaligned file and temp sort directory
\* created so far is registered with pm.clean_add.
C14_CleanupRegistered ==
  pc \in {"advance", "enter", "genome", "done", "failed"} =>
    Intermediates \subseteq cleanup

\* the part of C14 about stages that return, which the code meets
CleanupRegisteredOnReturn ==
  pc \in {"advance", "enter", "genome", "done"} => Intermediates \subseteq cleanup

\* the multiplier the specification gives: 2 for paired input, 1 for single-end
MateMultiplier(paired) == IF paired THEN 2 ELSE 1

\* C15: a stage records as aligned-read count the aligner's count times the
\* mate multiplier (2 when paired, 1 when single-end), and as rate that count
\* times 100 over the trimmed-read count, rounded to 2 decimals.
C15_RateFormula ==
  [][(StageReturns /\ casc = "main") =>
       LET ar == summary[cur.sumf] * MateMultiplier(args.paired_end) IN
         /\ stats'[<<"Aligned_reads", cur.ref>>] = ar
         /\ TrimmedKey \in DOMAIN stats =>
              stats'[<<"Alignment_rate", cur.ref>>] =
                AlignmentRate(ar, stats[TrimmedKey])]_vars

\* the paired half of C15, which the code meets
RateFormulaPaired ==
  [][(StageReturns /\ casc = "main" /\ args.paired_end) =>
       LET ar == summary[cur.sumf] * 2 IN
         /\ stats'[<<"Aligned_reads", cur.ref>>] = ar
         /\ TrimmedKey \in DOMAIN stats =>
              stats'[<<"Alignment_rate", cur.ref>>] =
                AlignmentRate(ar, stats[TrimmedKey])]_vars

Executed == {k \in DOMAIN log : ~log[k].skipped}

Scoped ==
  /\ \A k \in Executed :
       /\ log[k].out[1] # log[k].inp[1]
       /\ args.paired_end => log[k].out[2] # log[k].inp[2]
       /\ log[k].tmp \notin {log[k].inp[1], log[k].inp[2]}
  /\ \A j, k \in Executed :
       j # k => /\ log[j].tmp # log[k].tmp
                /\ log[j].out[1] # log[k].out[1]
                /\ args.paired_end => log[j].out[2] # log[k].out[2]

\* C17: no two stages of a run, of either cascade, use the same named pipe,
\* temp file or output FASTQ path, and a stage's output paths differ from its
\* input paths, for every decoy list, lists naming a decoy twice included.
C17_ResourceScoping == Scoped

\* C17 for lists that name no decoy twice, which the code meets
ScopedDistinctDecoys ==
  (\A j, k \in DOMAIN args.prealignments :
      j # k => args.prealignments[j] # args.prealignments[k]) => Scoped

\* the read identifiers of cascade c's trimmed pool
OwnIds(c) == Range(PoolReads(c))

\* C18: with --complexity a second pool is carried through the same decoys
\* in the same order; each call's input is the pool its own cascade held;
\* every file of a cascade holds reads of that cascade's trimmed pool only;
\* both residual pools are handed to the genome alignment.  Without
\* --complexity there is no second cascade.
C18_DuplicateCascade ==
  /\ \A k \in DOMAIN log :
       /\ log[k].casc = CascOf(k)
       /\ log[k].ref = args.prealignments[IterOf(k)]
       /\ log[k].inp = PoolAfter(log[k].casc, k - 1)
       /\ \A m \in 1..2 : log[k].out[m] # NoPath => log[k].out[m][3] = log[k].casc
  /\ \A p \in DOMAIN fq : Range(fq[p]) \subseteq OwnIds(p[3])
  /\ pc = "done" =>
       /\ Len(handed) = 1
       /\ \A c \in {"main", "dups"} :
            (c = "main" \/ args.complexity) =>
              /\ handed[1].paths[c] = PoolAfter(c, Len(log))
              /\ handed[1].paths[c][1] # NoPath
              /\ \A m \in 1..2 : Range(handed[1].reads[c][m]) \subseteq OwnIds(c)
       /\ ~args.complexity => handed[1].paths["dups"] = <<NoPath, NoPath>>
  /\ ~args.complexity => \A k \in DOMAIN log : log[k].casc = "main"

C18_Witness ==
  /\ pc = "done"
  /\ args.complexity
  /\ Len(log) = 4
  /\ \A k \in DOMAIN log : log[k].launched = 1
  /\ handed[1].reads["dups"][1] = PoolReads("dups")
  /\ handed[1].reads["main"][1] = <<>>

StageStatistics == {k \in DOMAIN stats : k[1] \in {"Aligned_reads", "Alignment_rate"}}

\* C19: with an empty --prealignments list no stage runs, no per-stage
\* statistic is recorded, and the genome alignment is handed the trimmed pool
\* itself: the same R1/R2 paths with the reads they had.
C19_ZeroDecoys ==
  Len(args.prealignments) = 0 =>
    /\ log = <<>> /\ cur = NoCur
    /\ aligner = "idle" /\ filters = <<>>
    /\ StageStatistics = {}
    /\ to_compress = <<>>
    /\ pc \in {"check", "failed", "genome", "done"}
    /\ pc = "done" =>
         /\ Len(handed) = 1
         /\ handed[1].paths["main"] = InitPool(args.paired_end, "main")
         /\ handed[1].reads["main"][1] = PoolReads("main")
         /\ args.paired_end => handed[1].reads["main"][2] = PoolReads("main")
         /\ args.complexity =>
              /\ handed[1].paths["dups"] = InitPool(args.paired_end, "dups")
              /\ handed[1].reads["dups"][1] = PoolReads("dups")

C19_Witness ==
  /\ Len(args.prealignments) = 0
  /\ pc = "done"
  /\ args.paired_end
  /\ handed[1].reads["main"] = <<PoolReads("main"), PoolReads("main")>>

\* C20: when Trimmed_reads cannot be obtained, a stage of the primary cascade
\* still reports its aligned-read count, reports no alignment rate at all,
\* does not fail, and returns its residual pool as usual.
C20_TrimmedUnavailable ==
  /\ [][(pc = "post" /\ MainStep /\ casc = "main" /\ TrimmedKey \notin DOMAIN stats) =>
          /\ pc' = "advance"
          /\ <<"Aligned_reads", cur.ref>> \in DOMAIN stats'
          /\ args.paired_end =>
               stats'[<<"Aligned_reads", cur.ref>>] = 2 * summary[cur.sumf]
          /\ pool'[casc] = Returned(cur, args.paired_end)
          /\ log'[Len(log')].out = pool'[casc]]_vars
  /\ [](TrimmedKey \notin DOMAIN stats =>
          \A k \in DOMAIN stats : k[1] # "Alignment_rate")

C20_Witness ==
  /\ pc = "done"
  /\ TrimmedKey \notin DOMAIN stats
  /\ args.paired_end
  /\ <<"Aligned_reads", "a">> \in DOMAIN stats
  /\ stats[<<"Aligned_reads", "a">>] = 2
  /\ Len(log) = 1 /\ log[1].launched = 1
  /\ handed[1].paths["main"] = log[1].out

\* the conditions under which resolving the index of asm must fail
FamilyComplete(d, asm, bt) == \A s \in bt : d.files[<<asm>> \o s] # "absent"
IndexDefect(d, asm) ==
  \/ ~d.exists
  \/ Files(d) = {}
  \/ ~(FamilyComplete(d, asm, BtSmall) \/ FamilyComplete(d, asm, BtLarge))
  \/ \E s \in BtSmall \cup BtLarge : d.files[<<asm>> \o s] = "empty"
  \/ d.files[<<asm, ".fa">>] # "full"

\* C21: the validation of an assembly's index lets the run go on only when
\* the folder exists and is not empty, one index family (small or large) has
\* all six files named after the assembly, no index file present is empty,
\* and <assembly>.fa is there and not empty.
C21_IndexValidation ==
  (pc \notin {"check", "failed"}) => ~IndexDefect(idx[Genome], Genome)

\* C21 without the reference sequence, which the code meets
IndexFamilyValidated ==
  (pc \notin {"check", "failed"}) =>
     /\ idx[Genome].exists
     /\ FamilyComplete(idx[Genome], Genome, BtSmall) \/
          FamilyComplete(idx[Genome], Genome, BtLarge)
     /\ \A s \in BtSmall \cup BtLarge : idx[Genome].files[<<Genome>> \o s] # "empty"
     /\ idx[Genome].files[<<Genome, ".fa">>] # "empty"

\* the filters of the temp-file strategy that are running
TempFileFiltersRunning ==
  {k \in DOMAIN filters : ~filters[k].nowait /\ filters[k].st \in {"open", "emit"}}

\* C22: in the temp-file strategy for paired input the filter is started at
\* the successful exit of the aligner, not before: while it runs the aligner
\* has exited with 0 and the controlling thread waits for this filter, and
\* after a failed aligner there is no filter for the stage.
C22_TempFileOrdering ==
  /\ [](\A k \in TempFileFiltersRunning :
          aligner = "exit0" /\ pc = "wait_filter" /\ cur.fidx = k)
  /\ [][\A k \in DOMAIN filters' :
          (k \notin DOMAIN filters /\ ~filters'[k].nowait) =>
             aligner = "running" /\ aligner' = "exit0"]_vars
  /\ []((aligner = "nonzero" /\ args.paired_end /\ ~cur.fifo) =>
          cur.fidx = 0 /\ TempFileFiltersRunning = {})

C22_Witness ==
  /\ args.paired_end /\ ~args.keep /\ args.no_fifo
  /\ pc = "wait_filter"
  /\ aligner = "exit0"
  /\ filters[cur.fidx].st = "emit"
  /\ ~filters[cur.fidx].nowait
  /\ Len(log) = 1

\* C23: a named-pipe stage removes whatever is at the pipe's path and makes
\* a new pipe before it launches the filter or the aligner: the pipe at the
\* path while the stage runs, the pipe its filter opened and the pipe its
\* aligner opened are the one made by this call.
C23_FreshPipe ==
  /\ [][(pc = "enter" /\ pc' = "dispatch" /\ cur'.fifo) =>
          /\ cur'.tmp \in others'
          /\ pipes'[cur'.tmp] = CallId
          /\ cur'.tmp \in DOMAIN pipes => pipes[cur'.tmp] # CallId
          /\ aligner' = aligner /\ filters' = filters]_vars
  /\ []((cur.ref # "" /\ cur.fifo) =>
          /\ pipes[cur.tmp] = CallId
          /\ cur.fidx # 0 => filters[cur.fidx].pipe = CallId
          /\ aligner = "running" => cur.wpipe = CallId)

\* the second stage on a decoy runs while the pipe path of the first was
\* still there when it began
C23_Witness ==
  /\ Len(log) = 1
  /\ log[1].mkfifo
  /\ cur.fifo
  /\ cur.tmp = log[1].tmp
  /\ aligner = "running"
  /\ cur.wpipe = <<1, 2>>
  /\ filters[cur.fidx].pipe = <<1, 2>>
  /\ filters[log[1].fidx].pipe = <<1, 1>>

\* C24: for single-end input no pairing filter is ever launched, whatever
\* useFIFO and --keep are, no pipe is made, and an executed stage returns the
\* file its aligner wrote the unaligned reads to as R1, with an empty R2.
C24_SingleEndPath ==
  /\ [](~args.paired_end =>
          /\ filters = <<>>
          /\ pipes = <<>>
          /\ cur.fidx = 0 /\ ~cur.fifo
          /\ \A k \in Executed :
               /\ log[k].out = <<log[k].tmp, NoPath>>
               /\ log[k].tmp[1] = "unmap.fq"
               /\ log[k].fidx = 0)
  /\ [][(StageReturns /\ ~args.paired_end) =>
          /\ pool'[casc] = <<cur.tmp, NoPath>>
          /\ cur.launched = 1 => Range(Content(fq', pool'[casc][1])) = cur.un]_vars

C24_Witness ==
  /\ ~args.paired_end /\ ~args.no_fifo /\ ~args.keep
  /\ pc = "done"
  /\ Len(log) = 2
  /\ log[1].ref # log[2].ref
  /\ \A k \in DOMAIN log : log[k].launched = 1
  /\ handed[1].paths["main"] = <<log[2].tmp, NoPath>>
  /\ handed[1].reads["main"][1] = PoolReads("main")

\* the summary log of the stage has no line for grep to find
NoSummaryLine == cur.sumf \notin DOMAIN summary \/ summary[cur.sumf] = NoLine

\* C25: when the summary log of a stage holds no "aligned exactly 1 time"
\* line, the stage records an aligned-read count of 0 (and a rate of 0 where
\* a rate is recorded) and returns as usual.
C25_MissingSummaryLine ==
  [][(pc = "post" /\ MainStep /\ casc = "main" /\ NoSummaryLine) =>
       /\ pc' = "advance"
       /\ stats'[<<"Aligned_reads", cur.ref>>] = 0
       /\ TrimmedKey \in DOMAIN stats => stats'[<<"Alignment_rate", cur.ref>>] = 0
       /\ pool'[casc] = Returned(cur, args.paired_end)]_vars

C25_Witness ==
  /\ pc = "done"
  /\ Len(log) = 1 /\ log[1].launched = 1
  /\ summary[Path("bt_aln_summary.log", log[1].ref, "main")] = NoLine
  /\ stats[<<"Aligned_reads", log[1].ref>>] = 0
  /\ TrimmedKey \in DOMAIN stats
  /\ handed[1].paths["main"] = log[1].out

\* the sorted alignment files of the decoys
MappedBams == {p \in others : p[1] = "bam"}

\* C26: the aligner of a stage writes the stage's sorted alignment file
\* exactly when --keep is given; without --keep there is never such a file.
C26_MappedRetention ==
  /\ [][(aligner = "running" /\ aligner' = "exit0") =>
          (cur.bam \in others') = args.keep]_vars
  /\ [](~args.keep => MappedBams = {})
  /\ [](args.keep =>
          \A k \in DOMAIN log :
            log[k].launched = 1 => Path("bam", log[k].ref, log[k].casc) \in MappedBams)

C26_Witness ==
  /\ pc = "done"
  /\ args.keep /\ args.complexity
  /\ Len(log) = 4
  /\ \A k \in DOMAIN log : log[k].launched = 1
  /\ Cardinality(MappedBams) = 4

\* ---- threads asked for ----
\* bowtie2 -p str(pm.cores)
AlignerThreads(cores) == cores
\* perl filter_paired_fq.pl is one process
FilterThreads == 1
\* what the aligner of the running stage and the filter of that stage ask for
Requested(cores) ==
  (IF aligner = "running" THEN AlignerThreads(cores) ELSE 0) +
  (IF cur.fidx # 0 /\ filters[cur.fidx].st \in {"open", "emit"}
     THEN FilterThreads ELSE 0)

\* C27: while a named-pipe stage runs, the threads asked for by its aligner
\* and its pairing filter together do not exceed pm.cores.
C27_ThreadBudget ==
  (cur.ref # "" /\ cur.fifo) =>
     \A cores \in 1..MaxCores : Requested(cores) <= cores

\* the first run is complete
Complete == pc = "stopped" /\ prev = <<>>

\* C28: in every configuration of (paired, keep, useFIFO) the targets that
\* decide whether a stage's commands are skipped are files a complete run
\* leaves behind, so that a second run finds them and launches nothing.
C28_SkipTargetProducible ==
  /\ []((Complete /\ SameEnv) =>
          \A k \in Executed :
            TargetsExist(StageTargets(args, log[k].ref, log[k].casc)))
  /\ []((Second /\ SameEnv /\ cur.ref # "") => cur.launched = 0)

\* C28 in the configurations other than paired input in the temp-file
\* strategy without --keep, which the code meets
SkipTargetProducibleElsewhere ==
  /\ []((Complete /\ SameEnv /\ ~(args.paired_end /\ args.no_fifo /\ ~args.keep)) =>
          \A k \in Executed :
            TargetsExist(StageTargets(args, log[k].ref, log[k].casc)))
  /\ []((Second /\ SameEnv /\ cur.ref # ""
           /\ ~(args.paired_end /\ args.no_fifo /\ ~args.keep)) => cur.launched = 0)

\* the paths the returning call registers with pm.clean_add at line 279
RegisteredOnReturn == (cleanup' \ cleanup) \cup {cur.tmp}

\* C29: in every configuration the paths a stage returns as its residual
\* pool are not among the paths that stage registers for cleanup.
C29_ResidualNotRegistered ==
  [][StageReturns =>
       \A m \in 1..2 : pool'[casc][m] \notin RegisteredOnReturn]_vars

\* C29 for paired input, which the code meets
ResidualNotRegisteredPaired ==
  [][(StageReturns /\ args.paired_end) =>
       \A m \in 1..2 : pool'[casc][m] \notin RegisteredOnReturn]_vars

\* the statistics keyed by decoy r
KeysOf(r) == {k \in DOMAIN stats : k[2] = r /\ k[1] \in {"Aligned_reads", "Alignment_rate"}}
\* no decoy is named twice
DistinctDecoys ==
  \A j, k \in DOMAIN args.prealignments :
     j # k => args.prealignments[j] # args.prealignments[k]

\* C30: the statistics keyed by a decoy are recorded once in a run, by the
\* stage of the primary cascade on that decoy, which finds none recorded and
\* leaves the count (and the rate, when Trimmed_reads is known); the stage of
\* the duplicate-retaining cascade records and overwrites nothing.
C30_StatisticsOwnership ==
  /\ [][(StageReturns /\ casc = "dups") => stats' = stats]_vars
  /\ [][(StageReturns /\ casc = "main") =>
          /\ KeysOf(cur.ref) = {}
          /\ <<"Aligned_reads", cur.ref>> \in DOMAIN stats'
          /\ (<<"Alignment_rate", cur.ref>> \in DOMAIN stats') =
               (TrimmedKey \in DOMAIN stats)
          /\ \A k \in DOMAIN stats : stats'[k] = stats[k]]_vars
  /\ [](\A r \in Decoys :
          KeysOf(r) # {} => \E k \in Executed : log[k].ref = r /\ log[k].casc = "main")

\* C30 for lists that name no decoy twice, which the code meets
StatisticsOwnershipDistinct ==
  /\ [][(StageReturns /\ casc = "dups") => stats' = stats]_vars
  /\ [][(StageReturns /\ casc = "main" /\ DistinctDecoys) =>
          /\ KeysOf(cur.ref) = {}
          /\ <<"Aligned_reads", cur.ref>> \in DOMAIN stats'
          /\ (<<"Alignment_rate", cur.ref>> \in DOMAIN stats') =
               (TrimmedKey \in DOMAIN stats)
          /\ \A k \in DOMAIN stats : stats'[k] = stats[k]]_vars
  /\ [](\A r \in Decoys :
          KeysOf(r) # {} => \E k \in Executed : log[k].ref = r /\ log[k].casc = "main")

====
